---- MODULE Spec2Model ----
(***************************************************************************)
(* Release harvesting and provider-version cache of the registry.          *)
(*                                                                         *)
(* The state machines of this module:                                      *)
(*   SpecReleases  one call of github.FetchReleases or github.FindRelease  *)
(*                 against a paginated upstream release feed;              *)
(*   SpecRerun     FetchReleases run twice over the same feed;             *)
(*   SpecReleasesBoth  the calls of github.go and of the package variant   *)
(*                 in part_000;                                            *)
(*   Spec          the API lambda (provider download, module version       *)
(*                 listing) in front of the provider version cache, with   *)
(*                 the population job's Store, the clock, the signing-key  *)
(*                 table and the upstream changing underneath it;          *)
(*   SpecCache     Store step by step next to the download handler;        *)
(*   SpecIsStale   CacheItem.IsStale on its own.                           *)
(***************************************************************************)
EXTENDS Integers, Sequences, FiniteSets, TLC

VARIABLES
    \* ---- one call of FetchReleases / FindRelease (github.go) ----
    op,             \* "FetchReleases" or "FindRelease"
    feed,           \* the upstream releases, in the order the API serves them
    since,          \* *time.Time: <<>> is nil, <<t>> points at t
    versionNumber,  \* FindRelease's versionNumber
    pc,             \* position inside the call
    variables,      \* the query variables map (its endCursor entry)
    nodes,          \* the page returned by the last fetchReleaseNodes
    endCursor,      \* *string returned with it: <<>> is nil
    idx,            \* position of the range loop in nodes
    releases,       \* FetchReleases' named result
    release,        \* FindRelease's named result: <<>> is nil
    err,            \* the named error result
    queried,        \* history: the endCursor variable of every query issued
    olderMetAt,     \* history: number of queries issued when line 157 first held, 0 if never
    failedAt,       \* history: number of queries issued when one first failed, 0 if never
    firstRun,       \* history: what the previous run over this feed returned, <<>> if none
    \* ---- the API lambda and what surrounds it ----
    now,            \* the clock (time.Now), in seconds
    cache,          \* the provider version table: key -> <<>> or <<CacheItem>>
    keyTable,       \* the signing-key table: namespace -> list of key ids
    upstream,       \* how the upstream answers Repositories.Get right now
    hpc,            \* position of the request handler
    req,            \* the path parameters of the request being handled
    document,       \* the document GetItem returned: <<>> is nil
    response,       \* the handler's return: <<>> until it returns
    calls,          \* history: the calls the handler has made, with their results
    keysChangedSinceStore, \* history: the key table changed after the last Store
    storing,        \* the population run's Store call: <<>> before the first one
    applied,        \* a pure function applied on its own, with its result: <<>> if none
    \* ---- the Router ----
    rpc,            \* position of the Router
    path,           \* req.Path
    visited,        \* the routes the range of getRouteHandler has tried
    handler,        \* the handler getRouteHandler returned: <<>> is nil
    handled,        \* history: the handlers called, with what they returned
    routed          \* the Router's return: <<>> until it returns

ghVars == <<op, feed, since, versionNumber, pc, variables, nodes, endCursor,
            idx, releases, release, err, queried, olderMetAt, failedAt, firstRun>>

routerVars == <<rpc, path, visited, handler, handled, routed>>

apiVars == <<now, cache, keyTable, upstream, hpc, req, document, response, calls,
             keysChangedSinceStore, storing, applied, routerVars>>

vars == <<ghVars, apiVars>>

-----------------------------------------------------------------------------
(* Bounds of the model *)

\* longest upstream feed
MaxFeed == 3
\* page size requested from the upstream; the code fixes 100 (initVariables),
\* the model scales it down so that feeds of MaxFeed releases span pages
perPage == 2
\* creation times of releases range over 0..MaxTime seconds
MaxTime == 2

(* Durations, in seconds *)
Second == 1
Minute == 60 * Second
Hour == 60 * Minute

sincePadding == 2 * Minute

Nil == <<>>

-----------------------------------------------------------------------------
(* The upstream release feed *)

Tags == {"v1", "v2", "1"}
Versions == {"1", "2"}

\* the release states: published, draft, prerelease
ReleaseFlags ==
    {[IsDraft |-> FALSE, IsPrerelease |-> FALSE],
     [IsDraft |-> TRUE, IsPrerelease |-> FALSE],
     [IsDraft |-> FALSE, IsPrerelease |-> TRUE]}

\* what FetchReleases reads of a release: the two flags and CreatedAt
FetchShapes == [TagName : {"v1"}, Flags : ReleaseFlags, CreatedAt : 0..MaxTime]

\* what FindRelease reads of a release: the two flags and TagName
FindShapes == [TagName : Tags, Flags : ReleaseFlags, CreatedAt : {0}]

\* GHRelease: the ID is the position in the feed
GHRelease(shape, id) ==
    [ID |-> id, TagName |-> shape.TagName, IsDraft |-> shape.Flags.IsDraft,
     IsPrerelease |-> shape.Flags.IsPrerelease, CreatedAt |-> shape.CreatedAt]

FeedsOver(shapes) ==
    UNION {{[i \in 1..n |-> GHRelease(f[i], i)] : f \in [1..n -> shapes]} : n \in 0..MaxFeed}

\* since: nil, or a time whose cutoff since - sincePadding lies in 1..MaxTime+1
\* (every cutoff has a creation time before it; the last one has none after it)
SinceValues == {Nil} \cup {<<sincePadding + c>> : c \in 1..(MaxTime + 1)}

Min(a, b) == IF a < b THEN a ELSE b

\* The releases connection of the GraphQL API: first: $perPage, after: $endCursor.
\* A cursor is the number of releases that precede the page.
Offset(cursor) == IF cursor = Nil THEN 0 ELSE cursor[1]
PageNodes(cursor) == SubSeq(feed, Offset(cursor) + 1, Min(Offset(cursor) + perPage, Len(feed)))
PageHasNextPage(cursor) == Offset(cursor) + perPage < Len(feed)
PageEndCursor(cursor) == Offset(cursor) + Len(PageNodes(cursor))

-----------------------------------------------------------------------------
(* github.go *)

\* initVariables: "endCursor": (*githubv4.String)(nil)
\* (variant for comparison: the map of the previous call is used again)
VariablesOfLastCall == variables
initVariables == [endCursor |-> Nil]

\* r.IsDraft || r.IsPrerelease
\* (variant for comparison: prereleases pass)
SkippedDraftOnly(r) == r.IsDraft
Skipped(r) == r.IsDraft \/ r.IsPrerelease

\* since != nil && r.CreatedAt.Before(since.Add(-sincePadding))
\* (variants for comparison: a release created at the cutoff counts as older;
\* a nil since cuts everything off)
CreatedBeforeOrAt(r, s) == s # Nil /\ r.CreatedAt <= s[1] - sincePadding
CreatedBeforeOrNoSince(r, s) == IF s = Nil THEN TRUE ELSE r.CreatedAt < s[1] - sincePadding
CreatedBefore(r, s) == s # Nil /\ r.CreatedAt < s[1] - sincePadding

\* r.TagName == fmt.Sprintf("v%s", versionNumber)
\* (variant for comparison: the tag is compared with the bare version)
TagIsVersion(r, v) == r.TagName = v
TagMatches(r, v) == r.TagName = "v" \o v

InitGithub ==
    /\ op = "none"
    /\ feed = <<>>
    /\ since = Nil
    /\ versionNumber = ""
    /\ pc = "idle"
    /\ variables = [endCursor |-> Nil]
    /\ nodes = <<>>
    /\ endCursor = Nil
    /\ idx = 0
    /\ releases = <<>>
    /\ release = Nil
    /\ err = FALSE
    /\ queried = <<>>
    /\ olderMetAt = 0
    /\ failedAt = 0
    /\ firstRun = Nil

\* FetchReleases(ctx, ghClient, namespace, name, since) is called:
\* variables := initVariables(namespace, name)
CallFetchReleases ==
    /\ pc = "idle"
    /\ op' = "FetchReleases"
    /\ feed' \in FeedsOver(FetchShapes)
    /\ since' \in SinceValues
    /\ variables' = initVariables
    /\ pc' = "fetchReleaseNodes"
    /\ UNCHANGED apiVars
    /\ UNCHANGED <<failedAt, firstRun>>
    /\ UNCHANGED <<versionNumber, nodes, endCursor, idx, releases, release, err, queried,
                   olderMetAt>>

\* FindRelease(ctx, ghClient, namespace, name, versionNumber) is called:
\* variables := initVariables(namespace, name)
CallFindRelease ==
    /\ pc = "idle"
    /\ op' = "FindRelease"
    /\ feed' \in FeedsOver(FindShapes)
    /\ versionNumber' \in Versions
    /\ variables' = initVariables
    /\ pc' = "fetchReleaseNodes"
    /\ UNCHANGED apiVars
    /\ UNCHANGED <<failedAt, firstRun>>
    /\ UNCHANGED <<since, nodes, endCursor, idx, releases, release, err, queried,
                   olderMetAt>>

\* fetchReleaseNodes succeeds: the page and, if there is a next page, its end cursor
FetchReleaseNodesOk ==
    /\ pc = "fetchReleaseNodes"
    /\ queried' = Append(queried, variables.endCursor)
    /\ nodes' = PageNodes(variables.endCursor)
    /\ endCursor' = IF PageHasNextPage(variables.endCursor)
                      THEN <<PageEndCursor(variables.endCursor)>>
                      ELSE Nil
    /\ idx' = 1
    /\ pc' = "range"
    /\ UNCHANGED apiVars
    /\ UNCHANGED <<failedAt, firstRun>>
    /\ UNCHANGED <<op, feed, since, versionNumber, variables, releases, release, err,
                   olderMetAt>>

\* ghClient.Query fails: the closure returns the error, the call returns
FetchReleaseNodesErr ==
    /\ pc = "fetchReleaseNodes"
    /\ op \in {"FetchReleases", "FindRelease"}
    /\ queried' = Append(queried, variables.endCursor)
    /\ failedAt' = IF failedAt = 0 THEN Len(queried) + 1 ELSE failedAt
    /\ err' = TRUE
    /\ pc' = "done"
    /\ UNCHANGED apiVars
    /\ UNCHANGED firstRun
    /\ UNCHANGED <<op, feed, since, versionNumber, variables, nodes, endCursor, idx,
                   releases, release, olderMetAt>>

\* if r.IsDraft || r.IsPrerelease { continue }   (both loops)
RangeSkip ==
    /\ pc = "range"
    /\ idx <= Len(nodes)
    /\ Skipped(nodes[idx])
    /\ idx' = idx + 1
    /\ UNCHANGED apiVars
    /\ UNCHANGED <<failedAt, firstRun>>
    /\ UNCHANGED <<op, feed, since, versionNumber, pc, variables, nodes, endCursor,
                   releases, release, err, queried, olderMetAt>>

\* FetchReleases: the release is older than the cutoff: break (leaves the range loop)
\* (variant for comparison: continue instead of break, the rest of the page is
\* examined)
FetchContinue ==
    /\ pc = "range"
    /\ op = "FetchReleases"
    /\ idx <= Len(nodes)
    /\ ~Skipped(nodes[idx])
    /\ CreatedBefore(nodes[idx], since)
    /\ olderMetAt' = IF olderMetAt = 0 THEN Len(queried) ELSE olderMetAt
    /\ idx' = idx + 1
    /\ UNCHANGED apiVars
    /\ UNCHANGED <<failedAt, firstRun>>
    /\ UNCHANGED <<op, feed, since, versionNumber, pc, variables, nodes, endCursor,
                   releases, release, err, queried>>
FetchBreak ==
    /\ pc = "range"
    /\ op = "FetchReleases"
    /\ idx <= Len(nodes)
    /\ ~Skipped(nodes[idx])
    /\ CreatedBefore(nodes[idx], since)
    /\ olderMetAt' = IF olderMetAt = 0 THEN Len(queried) ELSE olderMetAt
    /\ pc' = "cursor"
    /\ UNCHANGED apiVars
    /\ UNCHANGED <<failedAt, firstRun>>
    /\ UNCHANGED <<op, feed, since, versionNumber, variables, nodes, endCursor, idx,
                   releases, release, err, queried>>

\* FetchReleases: releases = append(releases, r)
FetchAppend ==
    /\ pc = "range"
    /\ op = "FetchReleases"
    /\ idx <= Len(nodes)
    /\ ~Skipped(nodes[idx])
    /\ ~CreatedBefore(nodes[idx], since)
    /\ releases' = Append(releases, nodes[idx])
    /\ idx' = idx + 1
    /\ UNCHANGED apiVars
    /\ UNCHANGED <<failedAt, firstRun>>
    /\ UNCHANGED <<op, feed, since, versionNumber, pc, variables, nodes, endCursor,
                   release, err, queried, olderMetAt>>

\* FindRelease: the tag matches: release = &rCopy; return nil
\* (variant for comparison: the match is kept and the search goes on)
FindMatchKeepsLooking ==
    /\ pc = "range"
    /\ op = "FindRelease"
    /\ idx <= Len(nodes)
    /\ ~Skipped(nodes[idx])
    /\ TagMatches(nodes[idx], versionNumber)
    /\ release' = <<nodes[idx]>>
    /\ idx' = idx + 1
    /\ UNCHANGED apiVars
    /\ UNCHANGED <<failedAt, firstRun>>
    /\ UNCHANGED <<op, feed, since, versionNumber, pc, variables, nodes, endCursor,
                   releases, err, queried, olderMetAt>>
FindMatch ==
    /\ pc = "range"
    /\ op = "FindRelease"
    /\ idx <= Len(nodes)
    /\ ~Skipped(nodes[idx])
    /\ TagMatches(nodes[idx], versionNumber)
    /\ release' = <<nodes[idx]>>
    /\ pc' = "done"
    /\ UNCHANGED apiVars
    /\ UNCHANGED <<failedAt, firstRun>>
    /\ UNCHANGED <<op, feed, since, versionNumber, variables, nodes, endCursor, idx,
                   releases, err, queried, olderMetAt>>

\* FindRelease: another tag: next release of the page
FindNext ==
    /\ pc = "range"
    /\ op = "FindRelease"
    /\ idx <= Len(nodes)
    /\ ~Skipped(nodes[idx])
    /\ ~TagMatches(nodes[idx], versionNumber)
    /\ idx' = idx + 1
    /\ UNCHANGED apiVars
    /\ UNCHANGED <<failedAt, firstRun>>
    /\ UNCHANGED <<op, feed, since, versionNumber, pc, variables, nodes, endCursor,
                   releases, release, err, queried, olderMetAt>>

\* the range loop is over: every node was visited, or break left it
LoopOver == pc = "cursor" \/ (pc = "range" /\ idx > Len(nodes))

\* if endCursor == nil { break }: the closure returns nil, the call returns
CursorNil ==
    /\ LoopOver
    /\ endCursor = Nil
    /\ pc' = "done"
    /\ UNCHANGED apiVars
    /\ UNCHANGED <<failedAt, firstRun>>
    /\ UNCHANGED <<op, feed, since, versionNumber, variables, nodes, endCursor, idx,
                   releases, release, err, queried, olderMetAt>>

\* variables["endCursor"] = githubv4.String(*endCursor): next iteration of for
\* (variant for comparison: the next iteration starts from fresh variables)
CursorNextFromStart ==
    /\ LoopOver
    /\ endCursor # Nil
    /\ variables' = initVariables
    /\ pc' = "fetchReleaseNodes"
    /\ UNCHANGED apiVars
    /\ UNCHANGED <<op, feed, since, versionNumber, nodes, endCursor, idx, releases,
                   release, err, queried, olderMetAt, failedAt, firstRun>>
\* (variant for comparison: the cursor is set and no next iteration starts)
CursorNextStalls ==
    /\ LoopOver
    /\ endCursor # Nil
    /\ variables' = [variables EXCEPT !.endCursor = endCursor]
    /\ pc' = "cursor"
    /\ UNCHANGED apiVars
    /\ UNCHANGED <<op, feed, since, versionNumber, nodes, endCursor, idx, releases,
                   release, err, queried, olderMetAt, failedAt, firstRun>>
CursorNext ==
    /\ LoopOver
    /\ endCursor # Nil
    /\ variables' = [variables EXCEPT !.endCursor = endCursor]
    /\ pc' = "fetchReleaseNodes"
    /\ UNCHANGED apiVars
    /\ UNCHANGED <<failedAt, firstRun>>
    /\ UNCHANGED <<op, feed, since, versionNumber, nodes, endCursor, idx, releases,
                   release, err, queried, olderMetAt>>

NextReleases ==
    \/ CallFetchReleases
    \/ CallFindRelease
    \/ FetchReleaseNodesOk
    \/ FetchReleaseNodesErr
    \/ RangeSkip
    \/ FetchBreak
    \/ FetchAppend
    \/ FindMatch
    \/ FindNext
    \/ CursorNil
    \/ CursorNext

-----------------------------------------------------------------------------
(* A second run of FetchReleases over the same feed with the same since *)

\* the caller calls FetchReleases again after a run that returned without
\* error: a new call starts from initVariables and a nil result list
RunFetchReleasesAgain ==
    /\ pc = "done"
    /\ op = "FetchReleases"
    /\ ~err
    /\ firstRun = Nil
    /\ firstRun' = <<[releases |-> releases, queries |-> Len(queried)]>>
    /\ variables' = initVariables
    /\ releases' = <<>>
    /\ nodes' = <<>>
    /\ endCursor' = Nil
    /\ idx' = 0
    /\ queried' = <<>>
    /\ olderMetAt' = 0
    /\ pc' = "fetchReleaseNodes"
    /\ UNCHANGED apiVars
    /\ UNCHANGED <<op, feed, since, versionNumber, release, err, failedAt>>

NextRerun ==
    \/ CallFetchReleases
    \/ FetchReleaseNodesOk
    \/ FetchReleaseNodesErr
    \/ RangeSkip
    \/ FetchBreak
    \/ FetchAppend
    \/ CursorNil
    \/ CursorNext
    \/ RunFetchReleasesAgain

-----------------------------------------------------------------------------
(* The variant of the github package in part_000: FetchReleases takes no     *)
(* since; FetchReleaseNodes and FindRelease test the named result err, which *)
(* is still nil inside the closure, in place of queryErr and fetchErr        *)

Part000Ops == {"part_000.FetchReleases", "part_000.FindRelease"}

Part000CallFetchReleases ==
    /\ pc = "idle"
    /\ op' = "part_000.FetchReleases"
    /\ feed' \in FeedsOver(FetchShapes)
    /\ variables' = initVariables
    /\ pc' = "fetchReleaseNodes"
    /\ UNCHANGED apiVars
    /\ UNCHANGED <<since, versionNumber, nodes, endCursor, idx, releases, release, err,
                   queried, olderMetAt, failedAt, firstRun>>

Part000CallFindRelease ==
    /\ pc = "idle"
    /\ op' = "part_000.FindRelease"
    /\ feed' \in FeedsOver(FindShapes)
    /\ versionNumber' \in Versions
    /\ variables' = initVariables
    /\ pc' = "fetchReleaseNodes"
    /\ UNCHANGED apiVars
    /\ UNCHANGED <<since, nodes, endCursor, idx, releases, release, err, queried,
                   olderMetAt, failedAt, firstRun>>

\* ghClient.Query fails: `if queryErr := ...; err != nil` does not hold, so
\* FetchReleaseNodes returns the zero query's nodes and no end cursor with a
\* nil error, and the caller goes on to range over them
Part000QueryFails ==
    /\ pc = "fetchReleaseNodes"
    /\ op \in Part000Ops
    /\ queried' = Append(queried, variables.endCursor)
    /\ failedAt' = IF failedAt = 0 THEN Len(queried) + 1 ELSE failedAt
    /\ nodes' = <<>>
    /\ endCursor' = Nil
    /\ idx' = 1
    /\ pc' = "range"
    /\ UNCHANGED apiVars
    /\ UNCHANGED <<op, feed, since, versionNumber, variables, releases, release, err,
                   olderMetAt, firstRun>>

\* part_000 FetchReleases: releases = append(releases, r)
Part000Append ==
    /\ pc = "range"
    /\ op = "part_000.FetchReleases"
    /\ idx <= Len(nodes)
    /\ ~Skipped(nodes[idx])
    /\ releases' = Append(releases, nodes[idx])
    /\ idx' = idx + 1
    /\ UNCHANGED apiVars
    /\ UNCHANGED <<op, feed, since, versionNumber, pc, variables, nodes, endCursor,
                   release, err, queried, olderMetAt, failedAt, firstRun>>

\* part_000 FindRelease: release = &r; return nil (r holds this node at the return)
Part000FindMatch ==
    /\ pc = "range"
    /\ op = "part_000.FindRelease"
    /\ idx <= Len(nodes)
    /\ ~Skipped(nodes[idx])
    /\ TagMatches(nodes[idx], versionNumber)
    /\ release' = <<nodes[idx]>>
    /\ pc' = "done"
    /\ UNCHANGED apiVars
    /\ UNCHANGED <<op, feed, since, versionNumber, variables, nodes, endCursor, idx,
                   releases, err, queried, olderMetAt, failedAt, firstRun>>

Part000FindNext ==
    /\ pc = "range"
    /\ op = "part_000.FindRelease"
    /\ idx <= Len(nodes)
    /\ ~Skipped(nodes[idx])
    /\ ~TagMatches(nodes[idx], versionNumber)
    /\ idx' = idx + 1
    /\ UNCHANGED apiVars
    /\ UNCHANGED <<op, feed, since, versionNumber, pc, variables, nodes, endCursor,
                   releases, release, err, queried, olderMetAt, failedAt, firstRun>>

\* both implementations: github.go and part_000
NextReleasesBoth ==
    \/ CallFetchReleases
    \/ CallFindRelease
    \/ FetchReleaseNodesOk
    \/ FetchReleaseNodesErr
    \/ RangeSkip
    \/ FetchBreak
    \/ FetchAppend
    \/ FindMatch
    \/ FindNext
    \/ CursorNil
    \/ CursorNext
    \/ Part000CallFetchReleases
    \/ Part000CallFindRelease
    \/ Part000QueryFails
    \/ Part000Append
    \/ Part000FindMatch
    \/ Part000FindNext

-----------------------------------------------------------------------------
(* Claims about FetchReleases and FindRelease *)

FetchDone == op = "FetchReleases" /\ pc = "done"
FindDone == op = "FindRelease" /\ pc = "done"

\* C1: every release in FetchReleases' result, at every point of the call, and
\* the release FindRelease returns, is neither a draft nor a prerelease.
C1_NoDraftNoPrerelease ==
    /\ \A k \in 1..Len(releases) : ~releases[k].IsDraft /\ ~releases[k].IsPrerelease
    /\ release # Nil => ~release[1].IsDraft /\ ~release[1].IsPrerelease

\* C1 witness: a finished FetchReleases over a feed with a draft and a
\* prerelease that accepted a release, or a finished FindRelease that skipped a
\* draft carrying the requested tag and returned a later release.
C1_Witness ==
    \/ /\ FetchDone /\ ~err /\ Len(releases) > 0
       /\ \E a, b \in 1..Len(feed) :
            feed[a].IsDraft /\ ~feed[a].IsPrerelease /\ feed[b].IsPrerelease /\ ~feed[b].IsDraft
    \/ /\ FindDone /\ release # Nil
       /\ \E a \in 1..Len(feed) :
            a < release[1].ID /\ feed[a].IsDraft /\ TagMatches(feed[a], versionNumber)

\* the cutoff of a non-nil since: since.Add(-sincePadding)
Cutoff(s) == s[1] - sincePadding

StrictlyDescending(f) == \A a, b \in 1..Len(f) : a < b => f[a].CreatedAt > f[b].CreatedAt
Descending(f) == \A a, b \in 1..Len(f) : a < b => f[a].CreatedAt >= f[b].CreatedAt

NotOlder(r) == r.CreatedAt >= Cutoff(since)
Installable(r) == ~r.IsDraft /\ ~r.IsPrerelease
InstallableNotOlder(r) == Installable(r) /\ NotOlder(r)

CeilDiv(a, b) == (a + b - 1) \div b

\* C2: over a strictly descending feed and a non-nil since, FetchReleases
\* issues at most ceil(k / perPage) + 1 queries, k the number of releases not
\* older than the cutoff, and issues no query after it has met a non-draft,
\* non-prerelease release older than the cutoff.
C2_PageBound ==
    (op = "FetchReleases" /\ since # Nil /\ StrictlyDescending(feed)) =>
        /\ Len(queried) <= CeilDiv(Len(SelectSeq(feed, NotOlder)), perPage) + 1
        /\ olderMetAt # 0 => Len(queried) = olderMetAt

\* C3: over a descending feed and a non-nil since, a FetchReleases that
\* returns without error returns exactly the non-draft, non-prerelease
\* releases of the whole feed created at or after the cutoff, in feed order.
C3_ExactlyTheNewReleases ==
    (FetchDone /\ ~err /\ since # Nil /\ Descending(feed)) =>
        releases = SelectSeq(feed, InstallableNotOlder)

\* C3 witness: a two-page descending feed with a draft on the first page, an
\* accepted release, and an older release on the second page that was met and
\* left out.
C3_Witness ==
    /\ FetchDone /\ ~err /\ since # Nil /\ Descending(feed)
    /\ Len(queried) = 2
    /\ olderMetAt = 2
    /\ Len(releases) > 0
    /\ \E a \in 1..Len(feed) : feed[a].IsDraft \/ feed[a].IsPrerelease

\* the feed positions FindRelease may return: not draft, not prerelease, tag
\* "v" followed by the requested version
Candidates ==
    {i \in 1..Len(feed) :
        ~feed[i].IsDraft /\ ~feed[i].IsPrerelease /\ feed[i].TagName = "v" \o versionNumber}

\* C11: a FindRelease in which no query failed returns, with a nil error, the
\* first release of the whole feed that is not a draft, not a prerelease and
\* is tagged "v" + version, and nil when the feed has none.
C11_FirstMatchingRelease ==
    (FindDone /\ failedAt = 0) =>
        /\ ~err
        /\ IF Candidates = {} THEN release = Nil
           ELSE release = <<feed[CHOOSE i \in Candidates : \A j \in Candidates : i <= j]>>

\* C11 witness: the release returned is on the second page, after a draft or
\* prerelease that carries the requested tag.
C11_Witness ==
    /\ FindDone /\ release # Nil
    /\ release[1].ID > perPage
    /\ \E a \in 1..Len(feed) :
         /\ a < release[1].ID
         /\ feed[a].IsDraft \/ feed[a].IsPrerelease
         /\ feed[a].TagName = release[1].TagName

\* C12: in both implementations a failed page query ends the call at once
\* with a non-nil error: no later query, no filtering, no not-found result.
C12_FailedQueryPropagates ==
    failedAt # 0 =>
        /\ pc = "done"
        /\ err
        /\ Len(queried) = failedAt

\* C13: a FetchReleases that returns an error returns an empty release list.
C13_NoPartialResult ==
    (FetchDone /\ err) => releases = <<>>

NoDuplicates(l) == \A a, b \in 1..Len(l) : a # b => l[a].ID # l[b].ID

\* C15: the second of two FetchReleases runs with the same since over the
\* same feed returns the list the first returned, each release once.
C15_SecondRunSameList ==
    (FetchDone /\ ~err /\ firstRun # Nil) =>
        /\ releases = firstRun[1].releases
        /\ NoDuplicates(releases)
        /\ NoDuplicates(firstRun[1].releases)
        /\ Len(queried) = firstRun[1].queries

\* C15 witness: both runs paged twice and returned the same non-empty list
\* under a non-nil since.
C15_Witness ==
    /\ FetchDone /\ ~err /\ firstRun # Nil
    /\ since # Nil
    /\ Len(queried) = 2
    /\ releases # <<>>
    /\ releases = firstRun[1].releases

\* the pages of a feed of n releases
PagesOf(n) == IF n = 0 THEN 1 ELSE CeilDiv(n, perPage)

\* C16: with a nil since, a FetchReleases in which no query failed queries
\* every page of the feed and returns every release that is neither draft nor
\* prerelease, in feed order, whatever the creation times.
C16_NilSinceCollectsAll ==
    (FetchDone /\ since = Nil /\ failedAt = 0) =>
        /\ ~err
        /\ olderMetAt = 0
        /\ Len(queried) = PagesOf(Len(feed))
        /\ releases = SelectSeq(feed, Installable)

\* C16 witness: a two-page feed whose creation times are not descending, with
\* a release that is skipped, collected in full.
C16_Witness ==
    /\ FetchDone /\ since = Nil /\ ~err
    /\ Len(queried) = 2
    /\ ~Descending(feed)
    /\ Len(releases) = 2
    /\ Len(feed) = 3

-----------------------------------------------------------------------------
(* The provider version cache: types.go, store.go *)

\* longest the clock runs, in refresh intervals
MaxTicks == 2
\* IsStale on its own: LastUpdated ranges over 0..MaxStamp seconds, and the
\* clock over LastUpdated + allowedAge - Slack .. LastUpdated + allowedAge + Slack
MaxStamp == 5
Slack == 2

allowedAge == (1 * Hour) - (5 * Minute)

\* CacheItem.IsStale, evaluated at time t: time.Since(i.LastUpdated) > allowedAge
\* (variant for comparison: an item is stale from the allowed age on)
IsStaleFromAllowedAge(i, t) == t - i.LastUpdated >= allowedAge
IsStale(i, t) == t - i.LastUpdated > allowedAge

Namespaces == {"hashicorp", "opentofu", "acme"}
Types == {"aws"}
RequestVersions == {"1.2.0", "1.3.0"}
Platforms == {[OS |-> "linux", Arch |-> "amd64"], [OS |-> "darwin", Arch |-> "arm64"]}

\* CacheVersionDownloadDetails, as a harvest of provider aws fills it in
DownloadDetailsFor(version, p) ==
    LET base == "aws_" \o version
        file == base \o "_" \o p.OS \o "_" \o p.Arch \o ".zip"
    IN  [Platform |-> p,
         Filename |-> file,
         DownloadURL |-> "https://dl/" \o file,
         SHASumsURL |-> "https://dl/" \o base \o "_SHA256SUMS",
         SHASumsSignatureURL |-> "https://dl/" \o base \o "_SHA256SUMS.sig",
         SHASum |-> "sha256-" \o file]

\* CacheVersion
CacheVersion(version, protocols, platforms) ==
    [Version |-> version,
     DownloadDetails |-> [k \in 1..Len(platforms) |-> DownloadDetailsFor(version, platforms[k])],
     Protocols |-> protocols]

Linux == [OS |-> "linux", Arch |-> "amd64"]
Darwin == [OS |-> "darwin", Arch |-> "arm64"]

\* the version lists a population run stores
StoredVersionLists ==
    {<<CacheVersion("1.3.0", <<"5.0", "6.0">>, <<Darwin, Linux>>),
       CacheVersion("1.2.0", <<"5.0">>, <<Linux>>)>>,
     <<CacheVersion("1.2.0", <<"5.0">>, <<Darwin>>)>>}

\* CacheVersion.GetVersionDetails(os, arch): the first download detail of the
\* platform, without signing keys; <<>> is nil
\* (variant for comparison: the first detail whatever its platform)
FirstDetailAnyPlatform(v, os, arch) ==
    IF v.DownloadDetails = <<>> THEN Nil
    ELSE LET d == v.DownloadDetails[1]
         IN  <<[Protocols |-> v.Protocols, OS |-> d.Platform.OS, Arch |-> d.Platform.Arch,
                Filename |-> d.Filename, DownloadURL |-> d.DownloadURL,
                SHASumsURL |-> d.SHASumsURL,
                SHASumsSignatureURL |-> d.SHASumsSignatureURL, SHASum |-> d.SHASum,
                SigningKeys |-> <<>>]>>
\* (variant for comparison: the details come with keys kept in the record)
DetailsWithStoredKeys(v, os, arch) ==
    LET hits == {k \in 1..Len(v.DownloadDetails) :
                    /\ v.DownloadDetails[k].Platform.OS = os
                    /\ v.DownloadDetails[k].Platform.Arch = arch}
    IN  IF hits = {} THEN Nil
        ELSE LET d == v.DownloadDetails[CHOOSE k \in hits : \A j \in hits : k <= j]
             IN  <<[Protocols |-> v.Protocols, OS |-> d.Platform.OS, Arch |-> d.Platform.Arch,
                    Filename |-> d.Filename, DownloadURL |-> d.DownloadURL,
                    SHASumsURL |-> d.SHASumsURL,
                    SHASumsSignatureURL |-> d.SHASumsSignatureURL, SHASum |-> d.SHASum,
                    SigningKeys |-> <<[KeyID |-> "stored", ASCIIArmor |-> "stored"]>>]>>
CacheVersion_GetVersionDetails(v, os, arch) ==
    LET hits == {k \in 1..Len(v.DownloadDetails) :
                    /\ v.DownloadDetails[k].Platform.OS = os
                    /\ v.DownloadDetails[k].Platform.Arch = arch}
    IN  IF hits = {} THEN Nil
        ELSE LET d == v.DownloadDetails[CHOOSE k \in hits : \A j \in hits : k <= j]
             IN  <<[Protocols |-> v.Protocols, OS |-> d.Platform.OS, Arch |-> d.Platform.Arch,
                    Filename |-> d.Filename, DownloadURL |-> d.DownloadURL,
                    SHASumsURL |-> d.SHASumsURL,
                    SHASumsSignatureURL |-> d.SHASumsSignatureURL, SHASum |-> d.SHASum,
                    SigningKeys |-> <<>>]>>

\* CacheItem.GetVersionDetails(version, os, arch): the details of the first
\* version with that version string, and whether there is one
CacheItem_GetVersionDetails(i, version, os, arch) ==
    LET hits == {k \in 1..Len(i.Versions) : i.Versions[k].Version = version}
    IN  IF hits = {} THEN [details |-> Nil, ok |-> FALSE]
        ELSE [details |-> CacheVersion_GetVersionDetails(
                              i.Versions[CHOOSE k \in hits : \A j \in hits : k <= j], os, arch),
              ok |-> TRUE]

\* Handler.Store builds the item: key, versions, time.Now()
\* (variant for comparison: LastUpdated is left at the zero time)
CacheItemZeroTime(key, versions, t) == [Provider |-> key, Versions |-> versions, LastUpdated |-> 0]
CacheItem(key, versions, t) == [Provider |-> key, Versions |-> versions, LastUpdated |-> t]

\* attributevalue.MarshalMap: a string is S, a struct is M, a slice is L, a
\* nil slice is NULL; a field without a dynamodbav tag goes under its Go name
MarshalList(l) == IF l = <<>> THEN [NULL |-> TRUE] ELSE [L |-> l]

MarshalStrings(l) == MarshalList([k \in 1..Len(l) |-> [S |-> l[k]]])

MarshalDownloadDetails(d) ==
    [M |-> [Platform |-> [M |-> [OS |-> [S |-> d.Platform.OS], Arch |-> [S |-> d.Platform.Arch]]],
            Filename |-> [S |-> d.Filename],
            DownloadURL |-> [S |-> d.DownloadURL],
            SHASumsURL |-> [S |-> d.SHASumsURL],
            SHASumsSignatureURL |-> [S |-> d.SHASumsSignatureURL],
            SHASum |-> [S |-> d.SHASum]]]

\* (variant for comparison: the download details are left out of the item)
MarshalCacheVersionNoDetails(v) ==
    [M |-> [Version |-> [S |-> v.Version], Protocols |-> MarshalStrings(v.Protocols)]]
MarshalCacheVersion(v) ==
    [M |-> [Version |-> [S |-> v.Version],
            DownloadDetails |->
                MarshalList([k \in 1..Len(v.DownloadDetails) |->
                                MarshalDownloadDetails(v.DownloadDetails[k])]),
            Protocols |-> MarshalStrings(v.Protocols)]]

\* attributevalue.MarshalMap(item), by CacheItem's dynamodbav tags; the time
\* is the S of its RFC 3339 text, written here as the number of seconds
MarshalMap(item) ==
    [provider |-> [S |-> item.Provider],
     versions |-> MarshalList([k \in 1..Len(item.Versions) |->
                                  MarshalCacheVersion(item.Versions[k])]),
     last_updated |-> [S |-> item.LastUpdated]]

\* attributevalue.UnmarshalMap: NULL is a nil slice, an attribute that is not
\* in the map leaves the field at its zero value
UnmarshalList(av) == IF "L" \in DOMAIN av THEN av.L ELSE <<>>

UnmarshalStrings(av) == LET l == UnmarshalList(av) IN [k \in 1..Len(l) |-> l[k].S]

UnmarshalDownloadDetails(av) ==
    [Platform |-> [OS |-> av.M.Platform.M.OS.S, Arch |-> av.M.Platform.M.Arch.S],
     Filename |-> av.M.Filename.S,
     DownloadURL |-> av.M.DownloadURL.S,
     SHASumsURL |-> av.M.SHASumsURL.S,
     SHASumsSignatureURL |-> av.M.SHASumsSignatureURL.S,
     SHASum |-> av.M.SHASum.S]

UnmarshalCacheVersion(av) ==
    [Version |-> av.M.Version.S,
     DownloadDetails |->
         IF "DownloadDetails" \in DOMAIN av.M
           THEN LET l == UnmarshalList(av.M.DownloadDetails)
                IN  [k \in 1..Len(l) |-> UnmarshalDownloadDetails(l[k])]
           ELSE <<>>,
     Protocols |-> UnmarshalStrings(av.M.Protocols)]

UnmarshalMap(m) ==
    [Provider |-> m.provider.S,
     Versions |-> LET l == UnmarshalList(m.versions)
                  IN  [k \in 1..Len(l) |-> UnmarshalCacheVersion(l[k])],
     LastUpdated |-> m.last_updated.S]

\* Client.PutItem(Item: marshalledItem): the item under the key is replaced
\* whole; the table is kept as a read decodes it
\* (variants for comparison: only the versions attribute of an item that is
\* already there is updated; the versions already there are kept after the new)
PutItemVersionsOnly(table, key, marshalledItem) ==
    IF table[key] = Nil THEN [table EXCEPT ![key] = <<UnmarshalMap(marshalledItem)>>]
    ELSE [table EXCEPT ![key] =
              <<[UnmarshalMap(marshalledItem) EXCEPT !.LastUpdated = table[key][1].LastUpdated]>>]
PutItemMergeVersions(table, key, marshalledItem) ==
    IF table[key] = Nil THEN [table EXCEPT ![key] = <<UnmarshalMap(marshalledItem)>>]
    ELSE [table EXCEPT ![key] =
              <<[UnmarshalMap(marshalledItem) EXCEPT
                    !.Versions = UnmarshalMap(marshalledItem).Versions \o table[key][1].Versions]>>]
PutItem(table, key, marshalledItem) ==
    [table EXCEPT ![key] = <<UnmarshalMap(marshalledItem)>>]

-----------------------------------------------------------------------------
(* Configuration and collaborators of the API lambda *)

\* Config.ProviderRedirects
ProviderRedirects == [n \in {"hashicorp", "opentofu"} |->
                         IF n = "hashicorp" THEN "opentofu" ELSE "acme"]

\* Config.EffectiveProviderNamespace
\* (variant for comparison: the redirect of the redirect target is followed)
EffectiveProviderNamespaceFollowed(namespace) ==
    IF namespace \in DOMAIN ProviderRedirects
      THEN IF ProviderRedirects[namespace] \in DOMAIN ProviderRedirects
             THEN ProviderRedirects[ProviderRedirects[namespace]]
             ELSE ProviderRedirects[namespace]
      ELSE namespace
EffectiveProviderNamespace(namespace) ==
    IF namespace \in DOMAIN ProviderRedirects THEN ProviderRedirects[namespace] ELSE namespace

\* fmt.Sprintf("%s/%s", effectiveNamespace, params.Type)
CacheKey(effectiveNamespace, type) == effectiveNamespace \o "/" \o type

CacheKeys == {CacheKey(EffectiveProviderNamespace(n), t) : n \in Namespaces, t \in Types}

\* providers.GetRepoName, modules.GetRepoName
ProviderRepoName(type) == "terraform-provider-" \o type
ModuleRepoName(system, name) == "terraform-" \o system \o "-" \o name

GPGPublicKey(id) == [KeyID |-> id, ASCIIArmor |-> "armor-" \o id]

\* the states of the signing-key table
KeyTables ==
    {[n \in Namespaces |-> IF n = "hashicorp" THEN <<GPGPublicKey("hc1")>>
                           ELSE IF n = "opentofu" THEN <<GPGPublicKey("ot1")>>
                           ELSE <<>>],
     [n \in Namespaces |-> IF n = "hashicorp" THEN <<GPGPublicKey("hc1")>>
                           ELSE IF n = "opentofu" THEN <<GPGPublicKey("ot1"), GPGPublicKey("ot2")>>
                           ELSE <<GPGPublicKey("ac1")>>]}

InitialKeyTable == CHOOSE t \in KeyTables : t["acme"] = <<>>

\* how the upstream answers Repositories.Get
UpstreamStates == {"ok", "notfound", "error", "noresponse"}

\* ProviderVersionCache.GetItem: the item under the key; a failed read
\* (backend unreachable, item not decodable) yields no document and an error
GetItem(key, outcome) ==
    IF outcome = "ok" THEN [document |-> cache[key], err |-> FALSE]
    ELSE [document |-> Nil, err |-> TRUE]

\* providers.KeysForNamespace
KeysForNamespace(namespace, outcome) ==
    IF outcome = "ok" THEN [publicKeys |-> keyTable[namespace], err |-> FALSE]
    ELSE [publicKeys |-> <<>>, err |-> TRUE]

\* managedGhClient.Repositories.Get: the HTTP response (<<>> is nil) and the error
RepositoriesGet(up) ==
    CASE up = "ok" -> [response |-> <<[StatusCode |-> 200]>>, getErr |-> FALSE]
      [] up = "notfound" -> [response |-> <<[StatusCode |-> 404]>>, getErr |-> TRUE]
      [] up = "error" -> [response |-> <<[StatusCode |-> 500]>>, getErr |-> TRUE]
      [] up = "noresponse" -> [response |-> Nil, getErr |-> TRUE]

\* github.RepositoryExists: response.StatusCode of a nil response panics
\* (variant for comparison: a 404 counts as existing)
RepositoryExistsOn404(get) ==
    IF get.getErr
      THEN IF get.response = Nil THEN [exists |-> FALSE, err |-> FALSE, panic |-> TRUE]
           ELSE IF get.response[1].StatusCode = 404
                  THEN [exists |-> TRUE, err |-> FALSE, panic |-> FALSE]
                  ELSE [exists |-> FALSE, err |-> TRUE, panic |-> FALSE]
      ELSE [exists |-> TRUE, err |-> FALSE, panic |-> FALSE]
RepositoryExists(get) ==
    IF get.getErr
      THEN IF get.response = Nil THEN [exists |-> FALSE, err |-> FALSE, panic |-> TRUE]
           ELSE IF get.response[1].StatusCode = 404
                  THEN [exists |-> FALSE, err |-> FALSE, panic |-> FALSE]
                  ELSE [exists |-> FALSE, err |-> TRUE, panic |-> FALSE]
      ELSE [exists |-> TRUE, err |-> FALSE, panic |-> FALSE]

-----------------------------------------------------------------------------
(* The API lambda: providerDownload.go, moduleVersions.go *)

Outcomes == {"ok", "error"}

DownloadParams ==
    {[Namespace |-> n, Type |-> t, Version |-> v, OS |-> p.OS, Architecture |-> p.Arch] :
        n \in Namespaces, t \in Types, v \in RequestVersions, p \in Platforms}

ModuleParams == [Namespace : Namespaces, Name : {"vpc"}, System : {"aws"}]

\* events.APIGatewayProxyResponse; an empty body is <<>>
APIGatewayProxyResponse(status, body) == [StatusCode |-> status, Body |-> body]
NotFoundResponse == APIGatewayProxyResponse(404, <<>>)

\* what a LambdaFunc returns: the response and whether the error is non-nil
Return(resp, e) == <<[response |-> resp, err |-> e]>>

\* keys.GPGPublicKeys = publicKeys; versionDetails.SigningKeys = keys
\* (variant for comparison: the details are returned as read)
KeysNotAttached(versionDetails, publicKeys) == versionDetails
AttachKeys(versionDetails, publicKeys) == [versionDetails EXCEPT !.SigningKeys = publicKeys]

\* processDocumentForProviderDownload: the return and the calls it made
\* (variant for comparison: a failed signing-key lookup is answered NotFound)
processDocumentKeysErrorNotFound(doc, effectiveNamespace, params, keysOutcome) ==
    LET versionDetails ==
            CacheItem_GetVersionDetails(doc, params.Version, params.OS, params.Architecture).details
        keys == KeysForNamespace(effectiveNamespace, keysOutcome)
        keysCall == [fn |-> "KeysForNamespace", args |-> <<effectiveNamespace>>,
                     result |-> keysOutcome]
    IN  IF versionDetails # Nil
          THEN IF keys.err
                 THEN [return |-> Return(NotFoundResponse, FALSE), calls |-> <<keysCall>>]
                 ELSE [return |-> Return(APIGatewayProxyResponse(
                                      200, <<AttachKeys(versionDetails[1], keys.publicKeys)>>), FALSE),
                       calls |-> <<keysCall>>]
          ELSE [return |-> Return(NotFoundResponse, FALSE), calls |-> <<>>]
processDocumentForProviderDownload(doc, effectiveNamespace, params, keysOutcome) ==
    LET versionDetails ==
            CacheItem_GetVersionDetails(doc, params.Version, params.OS, params.Architecture).details
        keys == KeysForNamespace(effectiveNamespace, keysOutcome)
        keysCall == [fn |-> "KeysForNamespace", args |-> <<effectiveNamespace>>,
                     result |-> keysOutcome]
    IN  IF versionDetails # Nil
          THEN IF keys.err
                 THEN [return |-> Return(APIGatewayProxyResponse(500, <<>>), TRUE),
                       calls |-> <<keysCall>>]
                 ELSE [return |-> Return(APIGatewayProxyResponse(
                                      200, <<AttachKeys(versionDetails[1], keys.publicKeys)>>), FALSE),
                       calls |-> <<keysCall>>]
          ELSE [return |-> Return(NotFoundResponse, FALSE), calls |-> <<>>]

\* downloadProviderVersion after GetItem: document, _ := ...; if document != nil
\* (variants for comparison: a read error fails the request; every request
\* goes on to the repository check)
CacheErrorFatal(doc, getErr) ==
    IF getErr THEN "fail" ELSE IF doc # Nil THEN "processDocument" ELSE "RepositoryExists"
RevalidateRepository(doc, getErr) == "RepositoryExists"
AfterCacheRead(doc, getErr) ==
    IF doc # Nil THEN "processDocument" ELSE "RepositoryExists"

\* providers.GetVersion: the download details of the release found upstream,
\* with the signing keys of the namespace
GetVersion(namespace, version, os, arch, outcome) ==
    IF outcome = "ok"
      THEN [versionDownloadResponse |->
                <<AttachKeys(CacheVersion_GetVersionDetails(
                                 CacheVersion(version, <<"5.0">>, <<[OS |-> os, Arch |-> arch]>>),
                                 os, arch)[1],
                             keyTable[namespace])>>,
            err |-> FALSE]
      ELSE [versionDownloadResponse |-> Nil, err |-> TRUE]

\* modules.GetVersions
GetVersions(namespace, repoName, outcome) ==
    IF outcome = "ok"
      THEN [versions |-> <<[version |-> "1.0.0"]>>, err |-> FALSE]
      ELSE [versions |-> <<>>, err |-> TRUE]

NoRequest == [route |-> "none"]

InitApi ==
    /\ now = 0
    /\ cache = [k \in CacheKeys |-> Nil]
    /\ keyTable = InitialKeyTable
    /\ upstream = "ok"
    /\ hpc = "idle"
    /\ req = NoRequest
    /\ document = Nil
    /\ response = Nil
    /\ calls = <<>>
    /\ keysChangedSinceStore = FALSE
    /\ storing = Nil
    /\ applied = Nil
    /\ rpc = "idle"
    /\ path = ""
    /\ visited = {}
    /\ handler = Nil
    /\ handled = <<>>
    /\ routed = Nil

\* the lambda takes the next request when it is not inside one
Ready == hpc = "idle"

\* the handler has returned or panicked and the lambda has not yet handed the
\* outcome back; the surroundings are observed as they were at that instant
Returned == hpc \in {"done", "panic"}

GetItemCall(key, got) ==
    [fn |-> "GetItem", args |-> <<key>>,
     result |-> IF got.err THEN "error" ELSE IF got.document = Nil THEN "miss" ELSE "hit"]

\* downloadProviderVersion, GetItem returns a document: the handler returns
\* what processDocumentForProviderDownload returns
DownloadServeDocument ==
    /\ Ready
    /\ \E params \in DownloadParams, getOutcome \in Outcomes, keysOutcome \in Outcomes :
         LET effectiveNamespace == EffectiveProviderNamespace(params.Namespace)
             key == CacheKey(effectiveNamespace, params.Type)
             got == GetItem(key, getOutcome)
             processed == processDocumentForProviderDownload(
                              got.document[1], effectiveNamespace, params, keysOutcome)
         IN  /\ AfterCacheRead(got.document, got.err) = "processDocument"
             /\ req' = [route |-> "download", params |-> params]
             /\ document' = got.document
             /\ calls' = <<GetItemCall(key, got)>> \o processed.calls
             /\ response' = processed.return
             /\ hpc' = "done"
    /\ UNCHANGED <<now, cache, keyTable, upstream, keysChangedSinceStore>>
    /\ UNCHANGED <<storing, applied>>
    /\ UNCHANGED ghVars
    /\ UNCHANGED routerVars

\* downloadProviderVersion, GetItem returns no document: on to the repository check
DownloadCacheMiss ==
    /\ Ready
    /\ \E params \in DownloadParams, getOutcome \in Outcomes :
         LET effectiveNamespace == EffectiveProviderNamespace(params.Namespace)
             key == CacheKey(effectiveNamespace, params.Type)
             got == GetItem(key, getOutcome)
             next == AfterCacheRead(got.document, got.err)
         IN  /\ next # "processDocument"
             /\ req' = [route |-> "download", params |-> params]
             /\ document' = got.document
             /\ calls' = <<GetItemCall(key, got)>>
             /\ response' = IF next = "RepositoryExists" THEN Nil
                            ELSE Return(APIGatewayProxyResponse(500, <<>>), TRUE)
             /\ hpc' = IF next = "RepositoryExists" THEN "RepositoryExists" ELSE "done"
    /\ UNCHANGED <<now, cache, keyTable, upstream, keysChangedSinceStore>>
    /\ UNCHANGED <<storing, applied>>
    /\ UNCHANGED ghVars
    /\ UNCHANGED routerVars

\* exists, err := github.RepositoryExists(...) and the two ifs that follow it;
\* onward is the handler position when the repository exists
CheckRepository(request, before, namespace, repoName, onward) ==
    LET r == RepositoryExists(RepositoriesGet(upstream))
        call == [fn |-> "RepositoryExists", args |-> <<namespace, repoName>>, result |-> upstream]
    IN  /\ req' = request
        /\ calls' = Append(before, call)
        /\ hpc' = IF r.panic THEN "panic" ELSE IF r.err \/ ~r.exists THEN "done" ELSE onward
        /\ response' = IF r.panic THEN Nil
                       ELSE IF r.err THEN Return(APIGatewayProxyResponse(500, <<>>), TRUE)
                       ELSE IF ~r.exists THEN Return(NotFoundResponse, FALSE)
                       ELSE Nil

\* downloadProviderVersion: check the repo exists
DownloadRepositoryExists ==
    /\ hpc = "RepositoryExists"
    /\ CheckRepository(req, calls, EffectiveProviderNamespace(req.params.Namespace),
                       ProviderRepoName(req.params.Type), "GetVersion")
    /\ UNCHANGED <<now, cache, keyTable, upstream, document, keysChangedSinceStore>>
    /\ UNCHANGED <<storing, applied>>
    /\ UNCHANGED ghVars
    /\ UNCHANGED routerVars

\* downloadProviderVersion: providers.GetVersion, json.Marshal, return
DownloadGetVersion ==
    /\ hpc = "GetVersion"
    /\ \E outcome \in Outcomes :
         LET p == req.params
             effectiveNamespace == EffectiveProviderNamespace(p.Namespace)
             got == GetVersion(effectiveNamespace, p.Version, p.OS, p.Architecture, outcome)
         IN  /\ calls' = Append(calls,
                    [fn |-> "GetVersion",
                     args |-> <<effectiveNamespace, ProviderRepoName(p.Type), p.Version, p.OS,
                                p.Architecture>>,
                     result |-> outcome])
             /\ response' = IF got.err THEN Return(APIGatewayProxyResponse(500, <<>>), TRUE)
                            ELSE Return(APIGatewayProxyResponse(200, got.versionDownloadResponse),
                                        FALSE)
    /\ hpc' = "done"
    /\ UNCHANGED <<now, cache, keyTable, upstream, req, document, keysChangedSinceStore>>
    /\ UNCHANGED <<storing, applied>>
    /\ UNCHANGED ghVars
    /\ UNCHANGED routerVars

\* listModuleVersions: check the repo exists
ListModuleVersions ==
    /\ Ready
    /\ \E params \in ModuleParams :
         CheckRepository([route |-> "moduleVersions", params |-> params], <<>>,
                         params.Namespace, ModuleRepoName(params.System, params.Name),
                         "GetVersions")
    /\ document' = Nil
    /\ UNCHANGED <<now, cache, keyTable, upstream, keysChangedSinceStore>>
    /\ UNCHANGED <<storing, applied>>
    /\ UNCHANGED ghVars
    /\ UNCHANGED routerVars

\* listModuleVersions: modules.GetVersions, json.Marshal, return
ListModuleVersionsGetVersions ==
    /\ hpc = "GetVersions"
    /\ \E outcome \in Outcomes :
         LET p == req.params
             repoName == ModuleRepoName(p.System, p.Name)
             got == GetVersions(p.Namespace, repoName, outcome)
         IN  /\ calls' = Append(calls, [fn |-> "GetVersions", args |-> <<p.Namespace, repoName>>,
                                        result |-> outcome])
             /\ response' = IF got.err THEN Return(APIGatewayProxyResponse(500, <<>>), TRUE)
                            ELSE Return(APIGatewayProxyResponse(
                                            200, <<[modules |-> <<[versions |-> got.versions]>>]>>),
                                        FALSE)
    /\ hpc' = "done"
    /\ UNCHANGED <<now, cache, keyTable, upstream, req, document, keysChangedSinceStore>>
    /\ UNCHANGED <<storing, applied>>
    /\ UNCHANGED ghVars
    /\ UNCHANGED routerVars

\* Handler.Store, called by a population run: after a failed MarshalMap or
\* PutItem the table is as before
Store ==
    /\ ~Returned
    /\ \E key \in CacheKeys, versions \in StoredVersionLists,
          outcome \in {"ok", "marshalErr", "putItemErr"} :
         /\ cache' = IF outcome = "ok"
                       THEN PutItem(cache, key, MarshalMap(CacheItem(key, versions, now)))
                       ELSE cache
         /\ keysChangedSinceStore' = IF outcome = "ok" THEN FALSE ELSE keysChangedSinceStore
    /\ UNCHANGED <<now, keyTable, upstream, hpc, req, document, response, calls>>
    /\ UNCHANGED <<storing, applied>>
    /\ UNCHANGED ghVars
    /\ UNCHANGED routerVars

\* time passes: one refresh interval
Tick ==
    /\ ~Returned
    /\ now < MaxTicks * allowedAge
    /\ now' = now + allowedAge
    /\ UNCHANGED <<cache, keyTable, upstream, hpc, req, document, response, calls,
                   keysChangedSinceStore>>
    /\ UNCHANGED <<storing, applied>>
    /\ UNCHANGED ghVars
    /\ UNCHANGED routerVars

\* a deployment changes the signing-key table
KeysChange ==
    /\ ~Returned
    /\ keyTable' \in KeyTables \ {keyTable}
    /\ keysChangedSinceStore' = (\E k \in CacheKeys : cache[k] # Nil)
    /\ UNCHANGED <<now, cache, upstream, hpc, req, document, response, calls>>
    /\ UNCHANGED <<storing, applied>>
    /\ UNCHANGED ghVars
    /\ UNCHANGED routerVars

\* the upstream repository is created, deleted, starts or stops failing
UpstreamChange ==
    /\ ~Returned
    /\ upstream' \in UpstreamStates \ {upstream}
    /\ UNCHANGED <<now, cache, keyTable, hpc, req, document, response, calls,
                   keysChangedSinceStore>>
    /\ UNCHANGED <<storing, applied>>
    /\ UNCHANGED ghVars
    /\ UNCHANGED routerVars

\* the lambda hands the outcome back; the handler's locals are gone
HandBack ==
    /\ Returned
    /\ hpc' = "idle"
    /\ req' = NoRequest
    /\ document' = Nil
    /\ response' = Nil
    /\ calls' = <<>>
    /\ UNCHANGED <<now, cache, keyTable, upstream, keysChangedSinceStore>>
    /\ UNCHANGED <<storing, applied>>
    /\ UNCHANGED ghVars
    /\ UNCHANGED routerVars

-----------------------------------------------------------------------------
(* Handler.Store step by step, next to the download handler *)

\* the Store call has returned (or none was made)
StoreReturned ==
    IF storing = Nil THEN TRUE ELSE storing[1].pc \in {"ok", "marshalErr", "putItemErr"}

\* Store(ctx, key, versions): item := CacheItem{key, versions, time.Now()};
\* attributevalue.MarshalMap(item), which may fail: pc "marshalErr" is the
\* return of the wrapped error, "putItemErr" likewise, "ok" is return nil.
\* History: before is the item under the key when the call was made,
\* calledAt what the clock read then, marshal
\* how MarshalMap went, put how PutItem went ("none": not called)
\* (variant for comparison: the error of MarshalMap is not looked at)
StoreCallIgnoresMarshalError ==
    /\ ~Returned
    /\ StoreReturned
    /\ \E key \in CacheKeys, versions \in StoredVersionLists, marshal \in Outcomes :
         storing' = <<[key |-> key,
                       item |-> CacheItem(key, versions, now),
                       before |-> cache[key],
                       calledAt |-> now,
                       marshal |-> marshal,
                       put |-> "none",
                       pc |-> "PutItem"]>>
    /\ UNCHANGED <<now, cache, keyTable, upstream, hpc, req, document, response, calls,
                   keysChangedSinceStore, applied>>
    /\ UNCHANGED ghVars
    /\ UNCHANGED routerVars
StoreCall ==
    /\ ~Returned
    /\ StoreReturned
    /\ \E key \in CacheKeys, versions \in StoredVersionLists, marshal \in Outcomes :
         storing' = <<[key |-> key,
                       item |-> CacheItem(key, versions, now),
                       before |-> cache[key],
                       calledAt |-> now,
                       marshal |-> marshal,
                       put |-> "none",
                       pc |-> IF marshal = "ok" THEN "PutItem" ELSE "marshalErr"]>>
    /\ UNCHANGED <<now, cache, keyTable, upstream, hpc, req, document, response, calls,
                   keysChangedSinceStore, applied>>
    /\ UNCHANGED ghVars
    /\ UNCHANGED routerVars

\* p.Client.PutItem(ctx, putItemInput): on an error the table is as before
StorePutItem ==
    /\ ~Returned
    /\ storing # Nil
    /\ storing[1].pc = "PutItem"
    /\ \E outcome \in Outcomes :
         /\ cache' = IF outcome = "ok"
                       THEN PutItem(cache, storing[1].key, MarshalMap(storing[1].item))
                       ELSE cache
         /\ storing' = <<[storing[1] EXCEPT
                              !.put = outcome,
                              !.pc = IF outcome = "ok" THEN "ok" ELSE "putItemErr"]>>
    /\ UNCHANGED <<now, keyTable, upstream, hpc, req, document, response, calls,
                   keysChangedSinceStore, applied>>
    /\ UNCHANGED ghVars
    /\ UNCHANGED routerVars

NextCache ==
    \/ StoreCall
    \/ StorePutItem
    \/ DownloadServeDocument
    \/ DownloadCacheMiss
    \/ DownloadRepositoryExists
    \/ DownloadGetVersion
    \/ HandBack
    \/ Tick

-----------------------------------------------------------------------------
(* CacheItem.IsStale on its own *)

\* i.IsStale() is called on an item while the clock reads t
CallIsStale ==
    \E key \in CacheKeys, versions \in StoredVersionLists, stamp \in 0..MaxStamp,
       t \in (allowedAge - Slack)..(allowedAge + Slack) :
        LET i == CacheItem(key, versions, stamp)
        IN  /\ now' = stamp + t
            /\ applied' = <<[fn |-> "IsStale", item |-> i, result |-> IsStale(i, now')]>>
            /\ UNCHANGED <<cache, keyTable, upstream, hpc, req, document, response, calls,
                           keysChangedSinceStore, storing>>
            /\ UNCHANGED ghVars
            /\ UNCHANGED routerVars

NextIsStale == CallIsStale

-----------------------------------------------------------------------------
(* Handler.Store with the version lists a caller can pass, next to the
   download handler *)

\* a list with a download detail whose checksum is empty, and a list with one
\* version string twice
PartialVersionList ==
    <<[Version |-> "1.2.0",
       DownloadDetails |-> <<[DownloadDetailsFor("1.2.0", Linux) EXCEPT !.SHASum = ""]>>,
       Protocols |-> <<"5.0">>]>>

DuplicateVersionList ==
    <<CacheVersion("1.2.0", <<"5.0">>, <<Linux>>), CacheVersion("1.2.0", <<"6.0">>, <<Darwin>>)>>

VersionLists == StoredVersionLists \cup {PartialVersionList, DuplicateVersionList}

\* Store(ctx, key, versions): versions goes into the item as it is passed
StoreVersionList ==
    /\ ~Returned
    /\ \E key \in CacheKeys, versions \in VersionLists,
          outcome \in {"ok", "marshalErr", "putItemErr"} :
         /\ cache' = IF outcome = "ok"
                       THEN PutItem(cache, key, MarshalMap(CacheItem(key, versions, now)))
                       ELSE cache
         /\ keysChangedSinceStore' = IF outcome = "ok" THEN FALSE ELSE keysChangedSinceStore
    /\ UNCHANGED <<now, keyTable, upstream, hpc, req, document, response, calls>>
    /\ UNCHANGED <<storing, applied>>
    /\ UNCHANGED ghVars
    /\ UNCHANGED routerVars

NextStore ==
    \/ StoreVersionList
    \/ DownloadServeDocument
    \/ DownloadCacheMiss
    \/ DownloadRepositoryExists
    \/ DownloadGetVersion
    \/ HandBack

-----------------------------------------------------------------------------
(* FindAssetBySuffix on its own *)

\* longest asset list
MaxAssets == 3

AssetNames ==
    {"terraform-provider-foo_1.0.0_linux_amd64.zip",
     "terraform-provider-foo_1.0.0_SHA256SUMS",
     "terraform-provider-foo_1.0.0_SHA256SUMS.sig",
     "SHA256SUMS"}

Suffixes == {"SHA256SUMS", "SHA256SUMS.sig", "linux_amd64.zip", "darwin_arm64.zip", ""}

\* ReleaseAsset: the k-th asset of a release
ReleaseAsset(name, k) ==
    [ID |-> "asset-" \o ToString(k),
     DownloadURL |-> "https://dl/" \o ToString(k) \o "/" \o name,
     Name |-> name]

AssetLists ==
    UNION {{[k \in 1..n |-> ReleaseAsset(f[k], k)] : f \in [1..n -> AssetNames]} :
              n \in 0..MaxAssets}

\* strings.HasSuffix
HasSuffix(s, suffix) ==
    Len(s) >= Len(suffix) /\ SubSeq(s, Len(s) - Len(suffix) + 1, Len(s)) = suffix

\* FindAssetBySuffix: &asset of the first asset that has the suffix, nil (<<>>)
\* if none has
\* (variant for comparison: the last asset that has the suffix)
FindLastAssetBySuffix(assets, suffix) ==
    LET hits == {k \in 1..Len(assets) : HasSuffix(assets[k].Name, suffix)}
    IN  IF hits = {} THEN Nil
        ELSE <<assets[CHOOSE k \in hits : \A j \in hits : k >= j]>>
FindAssetBySuffix(assets, suffix) ==
    LET hits == {k \in 1..Len(assets) : HasSuffix(assets[k].Name, suffix)}
    IN  IF hits = {} THEN Nil
        ELSE <<assets[CHOOSE k \in hits : \A j \in hits : k <= j]>>

\* one call, on any asset list and suffix
CallFindAssetBySuffix ==
    \E assets \in AssetLists, suffix \in Suffixes :
        /\ applied = Nil
        /\ applied' = <<[fn |-> "FindAssetBySuffix", assets |-> assets, suffix |-> suffix,
                         result |-> FindAssetBySuffix(assets, suffix)]>>
        /\ UNCHANGED <<now, cache, keyTable, upstream, hpc, req, document, response, calls,
                       keysChangedSinceStore, storing>>
        /\ UNCHANGED ghVars
        /\ UNCHANGED routerVars

NextFindAsset == CallFindAssetBySuffix

-----------------------------------------------------------------------------
(* VersionList.ToVersions on its own *)

\* longest version list converted
MaxVersions == 2

PlatformLists == {<<>>, <<Linux>>, <<Darwin, Linux>>, <<Linux, Linux>>}
ProtocolLists == {<<"5.0">>, <<"6.0", "5.0">>}

CacheVersions ==
    {CacheVersion(v, pr, pl) : v \in RequestVersions, pr \in ProtocolLists, pl \in PlatformLists}

ConvertedVersionLists == UNION {[1..n -> CacheVersions] : n \in 0..MaxVersions}

\* CacheVersion.ToVersion: platforms[i] = d.Platform
ToVersion(v) ==
    [Version |-> v.Version,
     Protocols |-> v.Protocols,
     Platforms |-> [i \in 1..Len(v.DownloadDetails) |-> v.DownloadDetails[i].Platform]]

\* VersionList.ToVersions: append(versionsToReturn, version.ToVersion()) in
\* range order
\* (variant for comparison: each entry is put in front of the list)
ToVersionsPrepended(l) == [k \in 1..Len(l) |-> ToVersion(l[Len(l) + 1 - k])]
ToVersions(l) == [k \in 1..Len(l) |-> ToVersion(l[k])]

\* one call, on any version list
CallToVersions ==
    \E l \in ConvertedVersionLists :
        /\ applied = Nil
        /\ applied' = <<[fn |-> "ToVersions", l |-> l, result |-> ToVersions(l)]>>
        /\ UNCHANGED <<now, cache, keyTable, upstream, hpc, req, document, response, calls,
                       keysChangedSinceStore, storing>>
        /\ UNCHANGED ghVars
        /\ UNCHANGED routerVars

NextToVersions == CallToVersions

-----------------------------------------------------------------------------
(* The Router: part_000 *)

\* the pieces of a route pattern between ^ and $: a literal text, [^/]+, or .
Lit(text) == [kind |-> "lit", text |-> text]
Seg == [kind |-> "seg"]
AnyChar == [kind |-> "any"]

\* RouteHandlers: the five routes, under the names of their handlers
RouteHandlers ==
    [downloadProviderVersion |->
        <<Lit("/v1/providers/"), Seg, Lit("/"), Seg, Lit("/"), Seg, Lit("/download/"), Seg,
          Lit("/"), Seg>>,
     listProviderVersions |->
        <<Lit("/v1/providers/"), Seg, Lit("/"), Seg, Lit("/versions")>>,
     listModuleVersions |->
        <<Lit("/v1/modules/"), Seg, Lit("/"), Seg, Lit("/"), Seg, Lit("/versions")>>,
     downloadModuleVersion |->
        <<Lit("/v1/modules/"), Seg, Lit("/"), Seg, Lit("/"), Seg, Lit("/"), Seg,
          Lit("/download")>>,
     terraformWellKnownMetadataHandler |->
        <<Lit("/"), AnyChar, Lit("well-known/terraform"), AnyChar, Lit("json")>>]

\* request paths
Paths ==
    {"/v1/providers/hashicorp/aws/1.2.0/download/linux/amd64",
     "/v1/providers/hashicorp/aws/versions",
     "/v1/modules/acme/vpc/aws/versions",
     "/v1/modules/acme/vpc/aws/1.0.0/download",
     "/.well-known/terraform.json",
     "/xwell-known/terraformxjson",
     "/v1/modules/acme/vpc/versions/versions",
     "/v1/modules/acme/vpc/aws/versions/download",
     "/v1/providers/hashicorp/versions/versions",
     "/v1/providers/a/b/download/download/c/d",
     "/",
     "",
     "/v1/providers/hashicorp/aws/versions/",
     "/v1/providers/hashicorp//versions",
     "/api/v1/providers/hashicorp/aws/versions",
     "/v1/providers/hashicorp/aws",
     "/v1/modules/acme/vpc/aws/1.0.0/download/linux"}

\* the text from position si on matches the pieces from the ti-th on; with
\* toEnd the match must use up the text ($)
RECURSIVE MatchFrom(_, _, _, _, _)
MatchFrom(pieces, ti, text, si, toEnd) ==
    IF ti > Len(pieces) THEN (IF toEnd THEN si = Len(text) + 1 ELSE TRUE)
    ELSE LET piece == pieces[ti]
         IN  CASE piece.kind = "lit" ->
                    /\ si + Len(piece.text) - 1 <= Len(text)
                    /\ SubSeq(text, si, si + Len(piece.text) - 1) = piece.text
                    /\ MatchFrom(pieces, ti + 1, text, si + Len(piece.text), toEnd)
               [] piece.kind = "any" ->
                    /\ si <= Len(text)
                    /\ SubSeq(text, si, si) # "\n"
                    /\ MatchFrom(pieces, ti + 1, text, si + 1, toEnd)
               [] piece.kind = "seg" ->
                    \E n \in 1..(Len(text) - si + 1) :
                        /\ \A i \in si..(si + n - 1) : SubSeq(text, i, i) # "/"
                        /\ MatchFrom(pieces, ti + 1, text, si + n, toEnd)

\* regexp.MatchString(route, path) for a route ^...$
\* (variant for comparison: the route without its $)
MatchStringNoDollar(route, text) == MatchFrom(route, 1, text, 1, FALSE)
MatchString(route, text) == MatchFrom(route, 1, text, 1, TRUE)

\* what a handler may return: a response and whether the error is non-nil
HandlerReturns ==
    {[response |-> APIGatewayProxyResponse(200, <<"body">>), err |-> FALSE],
     [response |-> APIGatewayProxyResponse(404, <<>>), err |-> FALSE],
     [response |-> APIGatewayProxyResponse(500, <<>>), err |-> TRUE]}

\* the Router is called with a request: getRouteHandler(config, req.Path)
RouterCalled ==
    /\ rpc = "idle"
    /\ path' \in Paths
    /\ rpc' = "range"
    /\ UNCHANGED <<visited, handler, handled, routed>>
    /\ UNCHANGED <<now, cache, keyTable, upstream, hpc, req, document, response, calls,
                   keysChangedSinceStore, storing, applied>>
    /\ UNCHANGED ghVars

\* getRouteHandler: one iteration of the range over the route map, which
\* visits the routes in any order; a match returns the route's handler
GetRouteHandlerRange ==
    /\ rpc = "range"
    /\ \E route \in DOMAIN RouteHandlers \ visited :
         /\ visited' = visited \cup {route}
         /\ IF MatchString(RouteHandlers[route], path)
              THEN handler' = <<route>> /\ rpc' = "handler"
              ELSE UNCHANGED <<handler, rpc>>
    /\ UNCHANGED <<path, handled, routed>>
    /\ UNCHANGED <<now, cache, keyTable, upstream, hpc, req, document, response, calls,
                   keysChangedSinceStore, storing, applied>>
    /\ UNCHANGED ghVars

\* getRouteHandler returns nil after the range; Router: if handler == nil,
\* 404 "No route handler found for path ..." and a nil error
GetRouteHandlerNil ==
    /\ rpc = "range"
    /\ visited = DOMAIN RouteHandlers
    /\ routed' = Return(APIGatewayProxyResponse(
                            404, <<"No route handler found for path " \o path>>), FALSE)
    /\ rpc' = "done"
    /\ UNCHANGED <<path, visited, handler, handled>>
    /\ UNCHANGED <<now, cache, keyTable, upstream, hpc, req, document, response, calls,
                   keysChangedSinceStore, storing, applied>>
    /\ UNCHANGED ghVars

\* response, err := handler(ctx, req); return response, err
RouterHandler ==
    /\ rpc = "handler"
    /\ \E ret \in HandlerReturns :
         /\ handled' = Append(handled, [handler |-> handler[1], return |-> ret])
         /\ routed' = Return(ret.response, ret.err)
    /\ rpc' = "done"
    /\ UNCHANGED <<path, visited, handler>>
    /\ UNCHANGED <<now, cache, keyTable, upstream, hpc, req, document, response, calls,
                   keysChangedSinceStore, storing, applied>>
    /\ UNCHANGED ghVars

NextRouter ==
    \/ RouterCalled
    \/ GetRouteHandlerRange
    \/ GetRouteHandlerNil
    \/ RouterHandler

Init == InitGithub /\ InitApi

Next ==
    \/ DownloadServeDocument
    \/ DownloadCacheMiss
    \/ DownloadRepositoryExists
    \/ DownloadGetVersion
    \/ ListModuleVersions
    \/ ListModuleVersionsGetVersions
    \/ HandBack
    \/ Store
    \/ Tick
    \/ KeysChange
    \/ UpstreamChange

Spec == Init /\ [][Next]_vars

SpecReleases == Init /\ [][NextReleases]_vars

SpecCache == Init /\ [][NextCache]_vars

SpecIsStale == Init /\ [][NextIsStale]_vars

SpecRerun == Init /\ [][NextRerun]_vars

SpecReleasesBoth == Init /\ [][NextReleasesBoth]_vars

SpecStore == Init /\ [][NextStore]_vars

SpecRouter == Init /\ [][NextRouter]_vars

SpecFindAsset == Init /\ [][NextFindAsset]_vars

SpecToVersions == Init /\ [][NextToVersions]_vars

\* the steps of a call that was made
CallStep ==
    \/ FetchReleaseNodesOk
    \/ FetchReleaseNodesErr
    \/ RangeSkip
    \/ FetchBreak
    \/ FetchAppend
    \/ FindMatch
    \/ FindNext
    \/ CursorNil
    \/ CursorNext

\* a call that was made runs on: the caller waits for the return, every
\* query is answered or fails, and each step of the loop is a step of the one
\* goroutine that runs it
SpecReleasesFair == Init /\ [][NextReleases]_vars /\ WF_vars(CallStep)

-----------------------------------------------------------------------------
(* Claims about the download lookup and the module version listing *)

DownloadRequest == req.route = "download"
DownloadDone == DownloadRequest /\ hpc = "done"
ModuleRequest == req.route = "moduleVersions"

FnsCalled == {calls[k].fn : k \in 1..Len(calls)}
Upstream == {"RepositoryExists", "GetVersion", "GetVersions"}

\* the record lists the version with a download detail for the platform
Offers(i, p) ==
    \E k \in 1..Len(i.Versions) :
        /\ i.Versions[k].Version = p.Version
        /\ \E j \in 1..Len(i.Versions[k].DownloadDetails) :
              /\ i.Versions[k].DownloadDetails[j].Platform.OS = p.OS
              /\ i.Versions[k].DownloadDetails[j].Platform.Arch = p.Architecture

HasVersion(i, p) == \E k \in 1..Len(i.Versions) : i.Versions[k].Version = p.Version

Status == response[1].response.StatusCode

\* C4: a download request ends at the cache (no repository check) exactly when
\* the record read is present and not stale; a stale record goes on to the
\* repository check like a miss.
C4_StaleRecordGoesLive ==
    DownloadDone =>
        (("RepositoryExists" \notin FnsCalled)
            <=> (document # Nil /\ ~IsStale(document[1], now)))

\* C5: a failed cache read alone gives no response: the request goes on to the
\* repository check, and it ends as a miss ends under the same upstream
\* answers (the same rule gives the outcome of both).
C5_CacheReadFailureIsAMiss ==
    (DownloadRequest /\ Len(calls) >= 1 /\ calls[1].result \in {"error", "miss"}) =>
        /\ document = Nil
        /\ Len(calls) = 1 => (hpc = "RepositoryExists" /\ response = Nil)
        /\ Len(calls) >= 2 =>
             /\ calls[2].fn = "RepositoryExists"
             /\ CASE calls[2].result = "noresponse" -> hpc = "panic"
                  [] calls[2].result = "notfound" ->
                        hpc = "done" /\ response = Return(NotFoundResponse, FALSE)
                  [] calls[2].result = "error" ->
                        /\ hpc = "done"
                        /\ response = Return(APIGatewayProxyResponse(500, <<>>), TRUE)
                  [] calls[2].result = "ok" ->
                        /\ Len(calls) = 2 => (hpc = "GetVersion" /\ response = Nil)
                        /\ Len(calls) >= 3 =>
                             /\ calls[3].fn = "GetVersion"
                             /\ hpc = "done"
                             /\ IF calls[3].result = "error"
                                  THEN response = Return(APIGatewayProxyResponse(500, <<>>), TRUE)
                                  ELSE /\ Status = 200
                                       /\ ~response[1].err
                                       /\ response[1].response.Body # <<>>

\* C5 witness: the read of a key that holds a record failed and the request
\* was answered 200 from the live harvest.
C5_Witness ==
    /\ DownloadDone
    /\ calls[1].result = "error"
    /\ cache[calls[1].args[1]] # Nil
    /\ Status = 200

\* C6: a record that does not list the requested version, or lists it
\* without the requested os/arch, is answered NotFound with no upstream call.
C6_AbsentFromRecordIsNotFound ==
    (DownloadDone /\ document # Nil /\ ~Offers(document[1], req.params)) =>
        /\ response = Return(NotFoundResponse, FALSE)
        /\ FnsCalled \cap Upstream = {}

\* C6 witness: the record lists the version for another platform only, the
\* upstream is up, the answer is 404.
C6_Witness ==
    /\ DownloadDone /\ document # Nil
    /\ HasVersion(document[1], req.params) /\ ~Offers(document[1], req.params)
    /\ upstream = "ok"
    /\ Status = 404

C8_NoRepositoryIsNotFound ==
    /\ (DownloadRequest /\ Len(calls) >= 2 /\ calls[1].result = "miss"
            /\ calls[2].result = "notfound") =>
          /\ hpc = "done"
          /\ response = Return(NotFoundResponse, FALSE)
          /\ FnsCalled = {"GetItem", "RepositoryExists"}
    /\ (ModuleRequest /\ Len(calls) >= 1 /\ calls[1].result = "notfound") =>
          /\ hpc = "done"
          /\ response = Return(NotFoundResponse, FALSE)
          /\ FnsCalled = {"RepositoryExists"}

\* C8 witness: a download request that missed the cache and found no repository.
C8_Witness ==
    /\ DownloadDone
    /\ calls[1].result = "miss"
    /\ Len(calls) = 2 /\ calls[2].result = "notfound"
    /\ Status = 404

\* C9: a 200 served from a cached record carries the keys the key table holds
\* for the effective namespace when the handler returns.
C9_KeysOfTheKeyTable ==
    (DownloadDone /\ document # Nil /\ Status = 200) =>
        response[1].response.Body[1].SigningKeys =
            keyTable[EffectiveProviderNamespace(req.params.Namespace)]

\* C9 witness: the key table changed after the record was stored, and the
\* 200 served from the record carries the (non-empty) keys of the new table.
C9_Witness ==
    /\ DownloadDone /\ document # Nil /\ Status = 200
    /\ keysChangedSinceStore
    /\ keyTable # InitialKeyTable
    /\ response[1].response.Body[1].SigningKeys # <<>>

\* C10: a cached record holds versions, protocols and download details only,
\* and the version details read out of it have an empty signing-key list.
C10_NoKeysInTheCache ==
    \A key \in CacheKeys :
        cache[key] # Nil =>
            LET i == cache[key][1]
            IN  /\ DOMAIN i = {"Provider", "Versions", "LastUpdated"}
                /\ \A k \in 1..Len(i.Versions) :
                      /\ DOMAIN i.Versions[k] = {"Version", "DownloadDetails", "Protocols"}
                      /\ \A j \in 1..Len(i.Versions[k].DownloadDetails) :
                            DOMAIN i.Versions[k].DownloadDetails[j] =
                                {"Platform", "Filename", "DownloadURL", "SHASumsURL",
                                 "SHASumsSignatureURL", "SHASum"}
                /\ \A v \in RequestVersions, p \in Platforms :
                      LET r == CacheItem_GetVersionDetails(i, v, p.OS, p.Arch).details
                      IN  r # Nil => r[1].SigningKeys = <<>>

\* C10 witness: a 200 carrying keys was served from a record whose own
\* version details carry none.
C10_Witness ==
    /\ DownloadDone /\ document # Nil /\ Status = 200
    /\ response[1].response.Body[1].SigningKeys # <<>>
    /\ cache[calls[1].args[1]] = document
    /\ CacheItem_GetVersionDetails(document[1], req.params.Version, req.params.OS,
                                   req.params.Architecture).details[1].SigningKeys = <<>>

-----------------------------------------------------------------------------
(* Claims about IsStale and Store *)

\* C14: IsStale is true exactly when the clock is more than 55 minutes
\* (3300 seconds) past last_updated, whatever else the item holds: false at
\* 3299 and at 3300 seconds, true at 3301.
C14_StaleAfter55Minutes ==
    applied # Nil =>
        LET age == now - applied[1].item.LastUpdated
        IN  /\ applied[1].result = (age > 3300)
            /\ age = 3299 => ~applied[1].result
            /\ age = 3300 => ~applied[1].result
            /\ age = 3301 => applied[1].result

\* C14 witness: an item exactly 55 minutes old is not stale.
C14_Witness ==
    /\ applied # Nil
    /\ now - applied[1].item.LastUpdated = 55 * 60
    /\ applied[1].item.LastUpdated > 0
    /\ ~applied[1].result

StoreKey == storing[1].key
ReadKey == calls[1].args[1]

\* C18: a download request that got a document while a Store call on the same
\* key is known got the whole item that was there before the call, or, once
\* PutItem has succeeded, the whole item of the call: its versions with its
\* last_updated. Every item in the table is the whole item of one Store call.
C18_ReaderSeesWholeRecord ==
    /\ \A k \in CacheKeys :
          cache[k] # Nil =>
              /\ cache[k][1].Provider = k
              /\ cache[k][1].Versions \in StoredVersionLists
    /\ (DownloadDone /\ document # Nil /\ storing # Nil /\ StoreKey = ReadKey) =>
          document = IF storing[1].pc = "ok" THEN <<storing[1].item>> ELSE storing[1].before

\* C18 witness: the request read the key between Store's building of a new,
\* different item and its PutItem, and got the previous item.
C18_Witness ==
    /\ DownloadDone /\ document # Nil
    /\ storing # Nil /\ StoreKey = ReadKey
    /\ storing[1].pc = "PutItem"
    /\ document = storing[1].before
    /\ document[1].Versions # storing[1].item.Versions
    /\ document[1].LastUpdated # storing[1].item.LastUpdated

\* C19: the step in which Store's PutItem succeeds leaves under the key
\* exactly the item of the call (the versions passed in, the time the call
\* read the clock) and every other key as it was.
C19_StoreReplacesWholesale ==
    [][(storing # Nil /\ storing[1].pc = "PutItem" /\ storing'[1].pc = "ok") =>
          /\ cache'[StoreKey] # Nil
          /\ cache'[StoreKey][1].Versions = storing[1].item.Versions
          /\ cache'[StoreKey][1].LastUpdated = storing[1].item.LastUpdated
          /\ cache'[StoreKey][1].Provider = StoreKey
          /\ \A k \in CacheKeys \ {StoreKey} : cache'[k] = cache[k]]_vars

\* C19 witness: a Store has replaced an item that had other versions and an
\* older last_updated, while another key holds an item.
C19_Witness ==
    /\ storing # Nil /\ storing[1].pc = "ok"
    /\ storing[1].before # Nil
    /\ storing[1].before[1].Versions # storing[1].item.Versions
    /\ storing[1].before[1].LastUpdated < storing[1].item.LastUpdated
    /\ cache[StoreKey] = <<storing[1].item>>
    /\ \E k \in CacheKeys \ {StoreKey} : cache[k] # Nil

\* C20: after a successful Store, and until the next Store call, a read of
\* the key returns the versions passed in: same versions in the same order,
\* same protocols, same download details.
C20_StoreThenReadRoundTrip ==
    (storing # Nil /\ storing[1].pc = "ok") =>
        LET got == GetItem(StoreKey, "ok")
            V == storing[1].item.Versions
        IN  /\ ~got.err
            /\ got.document # Nil
            /\ Len(got.document[1].Versions) = Len(V)
            /\ \A k \in 1..Len(V) :
                  /\ got.document[1].Versions[k].Version = V[k].Version
                  /\ got.document[1].Versions[k].Protocols = V[k].Protocols
                  /\ got.document[1].Versions[k].DownloadDetails = V[k].DownloadDetails

\* C20 witness: a stored list of two versions, one with two platforms and
\* two protocols, is read back.
C20_Witness ==
    /\ storing # Nil /\ storing[1].pc = "ok"
    /\ Len(storing[1].item.Versions) = 2
    /\ Len(storing[1].item.Versions[1].DownloadDetails) = 2
    /\ Len(storing[1].item.Versions[1].Protocols) = 2
    /\ GetItem(StoreKey, "ok").document[1].Versions = storing[1].item.Versions

-----------------------------------------------------------------------------
(* Claims about what a cache record may hold *)

\* every field a client needs of a download detail is there
Complete(d) ==
    /\ d.Filename # ""
    /\ d.DownloadURL # ""
    /\ d.SHASumsURL # ""
    /\ d.SHASumsSignatureURL # ""
    /\ d.SHASum # ""

\* the entry of the record read for the requested version and platform
RequestedEntry ==
    CacheItem_GetVersionDetails(document[1], req.params.Version, req.params.OS,
                                req.params.Architecture).details

\* C21: every 200 of a download request served from a cache record carries a
\* non-empty filename, download URL, checksum-manifest URL, signature URL and
\* checksum, and a record entry that lacks one of them is answered NotFound.
C21_NoPartialResponse ==
    (DownloadDone /\ document # Nil) =>
        /\ Status = 200 => Complete(response[1].response.Body[1])
        /\ (RequestedEntry # Nil /\ ~Complete(RequestedEntry[1])) =>
              response = Return(NotFoundResponse, FALSE)

\* C22: in every cache state the version strings of one record are pairwise
\* distinct: a lookup of a version string has one candidate.
C22_VersionStringsDistinct ==
    \A key \in CacheKeys :
        cache[key] # Nil =>
            LET V == cache[key][1].Versions
            IN  \A a, b \in 1..Len(V) : a # b => V[a].Version # V[b].Version

-----------------------------------------------------------------------------
(* Claims about FindAssetBySuffix, RepositoryExists and the failures of the
   handlers *)

\* some tail of the name is the suffix
EndsWith(name, suffix) == \E i \in 0..Len(name) : SubSeq(name, i + 1, Len(name)) = suffix

\* C23: FindAssetBySuffix returns the first asset in list order whose name
\* ends with the suffix, with its own id, name and download URL, and nil
\* exactly when no name ends with the suffix (the empty list included).
C23_FirstAssetWithSuffix ==
    (applied # Nil /\ applied[1].fn = "FindAssetBySuffix") =>
        LET a == applied[1].assets
            ends == {k \in 1..Len(a) : EndsWith(a[k].Name, applied[1].suffix)}
            r == applied[1].result
        IN  /\ (r = Nil) <=> (ends = {})
            /\ r # Nil =>
                  \E k \in ends :
                     /\ \A j \in ends : k <= j
                     /\ r[1].ID = a[k].ID
                     /\ r[1].Name = a[k].Name
                     /\ r[1].DownloadURL = a[k].DownloadURL

\* C23 witness: the archive, the checksum manifest and the signature of the
\* manifest, looked up by "SHA256SUMS": the second asset is returned.
C23_Witness ==
    /\ applied # Nil /\ applied[1].fn = "FindAssetBySuffix"
    /\ applied[1].suffix = "SHA256SUMS"
    /\ Len(applied[1].assets) = 3
    /\ applied[1].assets[1].Name = "terraform-provider-foo_1.0.0_linux_amd64.zip"
    /\ applied[1].assets[2].Name = "terraform-provider-foo_1.0.0_SHA256SUMS"
    /\ applied[1].assets[3].Name = "SHA256SUMS"
    /\ applied[1].result = <<applied[1].assets[2]>>

\* C24: every RepositoryExists call ends in one of three outcomes: (true, nil)
\* when the upstream call succeeds, (false, nil) on a 404, (false, error) on
\* every other failure, a failure without HTTP response included.
C24_ThreeOutcomes ==
    /\ hpc # "panic"
    /\ \A k \in 1..Len(calls) :
          calls[k].fn = "RepositoryExists" =>
              LET r == RepositoryExists(RepositoriesGet(calls[k].result))
              IN  /\ ~r.panic
                  /\ calls[k].result = "ok" => (r.exists /\ ~r.err)
                  /\ calls[k].result = "notfound" => (~r.exists /\ ~r.err)
                  /\ calls[k].result \notin {"ok", "notfound"} => (~r.exists /\ r.err)

\* the calls, other than the cache read, that returned an error to the handler
ReturnedErrors ==
    {k \in 1..Len(calls) : calls[k].fn # "GetItem" /\ calls[k].result = "error"}

-----------------------------------------------------------------------------
(* Claims about Store's failures and ToVersions *)

\* Store returned the error of MarshalMap or of PutItem
StoreErr == storing[1].pc \in {"marshalErr", "putItemErr"}

\* C26: Store returns an error exactly when MarshalMap or PutItem failed;
\* after a failed MarshalMap PutItem is not called; and until PutItem has
\* succeeded the item under the key is the one that was there before the call.
C26_StoreReportsFailure ==
    storing # Nil =>
        /\ StoreReturned =>
              (StoreErr <=> (storing[1].marshal = "error" \/ storing[1].put = "error"))
        /\ storing[1].marshal = "error" => storing[1].put = "none"
        /\ storing[1].pc # "ok" => cache[StoreKey] = storing[1].before

\* C26 witness: PutItem failed on a key that held an item with other
\* versions, Store returned the error and the item is still there.
C26_Witness ==
    /\ storing # Nil /\ storing[1].pc = "putItemErr"
    /\ storing[1].before # Nil
    /\ storing[1].before[1].Versions # storing[1].item.Versions
    /\ cache[StoreKey] = storing[1].before

\* C27: ToVersions returns one entry per cached version, in the record's
\* order, each with the version string and the protocols unchanged and one
\* platform per download detail, in the details' order.
C27_ToVersionsKeepsOrderAndCount ==
    (applied # Nil /\ applied[1].fn = "ToVersions") =>
        LET l == applied[1].l
            r == applied[1].result
        IN  /\ Len(r) = Len(l)
            /\ \A k \in 1..Len(l) :
                  /\ r[k].Version = l[k].Version
                  /\ r[k].Protocols = l[k].Protocols
                  /\ Len(r[k].Platforms) = Len(l[k].DownloadDetails)
                  /\ \A j \in 1..Len(l[k].DownloadDetails) :
                        r[k].Platforms[j] = l[k].DownloadDetails[j].Platform

\* C27 witness: two versions, the first with two protocols and the details of
\* darwin before linux, the second with one platform twice.
C27_Witness ==
    /\ applied # Nil /\ applied[1].fn = "ToVersions"
    /\ Len(applied[1].l) = 2
    /\ applied[1].l[1].Version # applied[1].l[2].Version
    /\ applied[1].result[1].Platforms = <<Darwin, Linux>>
    /\ applied[1].result[1].Protocols = <<"6.0", "5.0">>
    /\ applied[1].result[2].Platforms = <<Linux, Linux>>

-----------------------------------------------------------------------------
(* Claims about the cutoff, the match and the end of the page loop *)

\* the feed position of the first release of the page that holds position i
PageStart(i) == ((i - 1) \div perPage) * perPage + 1

\* a non-draft, non-prerelease release older than the cutoff comes before
\* position i on the page of i
AfterOlderOnPage(i) ==
    \E j \in PageStart(i)..(i - 1) : Installable(feed[j]) /\ ~NotOlder(feed[j])

AcceptedOnItsPage(r) == InstallableNotOlder(r) /\ ~AfterOlderOnPage(r.ID)

\* C28: for any feed and a non-nil since, no release in FetchReleases' result
\* was created before since - 2 minutes, and none comes after an older
\* release on its page; a run in which no query failed returns every
\* non-draft, non-prerelease release created at or after the cutoff that no
\* older release precedes on its page.
C28_NothingBeforeTheCutoff ==
    (op = "FetchReleases" /\ since # Nil) =>
        /\ \A k \in 1..Len(releases) :
              /\ releases[k].CreatedAt >= since[1] - 2 * 60
              /\ ~AfterOlderOnPage(releases[k].ID)
        /\ (pc = "done" /\ failedAt = 0) => releases = SelectSeq(feed, AcceptedOnItsPage)

\* C28 witness: a feed that is not descending; a release created exactly at
\* the cutoff was accepted, and a release newer than the cutoff that follows
\* an older one on its page was left out.
C28_Witness ==
    /\ FetchDone /\ ~err /\ since # Nil
    /\ ~Descending(feed)
    /\ \E k \in 1..Len(releases) : releases[k].CreatedAt = Cutoff(since)
    /\ \E i \in 1..Len(feed) :
          /\ InstallableNotOlder(feed[i])
          /\ AfterOlderOnPage(i)
          /\ \A k \in 1..Len(releases) : releases[k].ID # i

\* C29: once FindRelease has its release the call is over: the queries
\* issued are the pages up to the page of the release, and the release is
\* the first candidate of the feed whatever follows it.
C29_StopsAtTheMatch ==
    (op = "FindRelease" /\ release # Nil) =>
        /\ pc = "done"
        /\ ~err
        /\ Len(queried) = CeilDiv(release[1].ID, perPage)
        /\ release[1].ID \in Candidates
        /\ \A j \in Candidates : release[1].ID <= j

\* C29 witness: the match is the first release of a two-page feed; the same
\* page and the next page hold further candidates; one query was issued.
C29_Witness ==
    /\ FindDone /\ release # Nil
    /\ release[1].ID = 1
    /\ Len(queried) = 1
    /\ Len(feed) > perPage
    /\ \E j \in Candidates : j > 1 /\ j <= perPage
    /\ \E j \in Candidates : j > perPage

-----------------------------------------------------------------------------
(* Claims about the age of a record, the effective namespace and the routes *)

\* the step in which the PutItem of the Store call succeeds
StoreSucceeds == storing # Nil /\ storing[1].pc = "PutItem" /\ storing'[1].pc = "ok"

RequestNamespace ==
    CASE req.params.Namespace = "hashicorp" -> "opentofu"
      [] req.params.Namespace = "opentofu" -> "acme"
      [] OTHER -> req.params.Namespace

\* C32: every call of a download request is made with the same namespace:
\* the one-hop redirect target of the requested namespace, or that namespace
\* when it has no redirect; the cache key is that namespace, "/" and the type.
C32_OneEffectiveNamespace ==
    DownloadRequest =>
        \A k \in 1..Len(calls) :
            /\ calls[k].fn \in {"GetItem", "RepositoryExists", "GetVersion", "KeysForNamespace"}
            /\ IF calls[k].fn = "GetItem"
                  THEN calls[k].args[1] = RequestNamespace \o "/" \o req.params.Type
                  ELSE calls[k].args[1] = RequestNamespace

\* C32 witness: a request for hashicorp, whose redirect target opentofu has
\* a redirect of its own, missed the cache, checked the repository and
\* harvested under opentofu.
C32_Witness ==
    /\ DownloadDone
    /\ req.params.Namespace = "hashicorp"
    /\ Len(calls) = 3
    /\ calls[1].args[1] = "opentofu/aws"
    /\ calls[2].fn = "RepositoryExists" /\ calls[2].args[1] = "opentofu"
    /\ calls[3].fn = "GetVersion" /\ calls[3].args[1] = "opentofu"
    /\ Status = 200

\* the routes whose pattern the path matches
Matching(text) == {route \in DOMAIN RouteHandlers : MatchString(RouteHandlers[route], text)}

\* C33: whatever the order in which the routes are tried, a path matches at
\* most one route; a path that matches none is answered 404 with a nil error
\* and no handler is called; a path that matches one has that route's handler
\* called once and the Router returns what the handler returned.
C33_DispatchIsDeterministic ==
    /\ \A text \in Paths : Cardinality(Matching(text)) <= 1
    /\ handler # Nil => Matching(path) = {handler[1]}
    /\ rpc # "done" => (handled = <<>> /\ routed = Nil)
    /\ rpc = "done" =>
          IF Matching(path) = {}
            THEN /\ handled = <<>>
                 /\ routed[1].response.StatusCode = 404
                 /\ ~routed[1].err
            ELSE /\ Len(handled) = 1
                 /\ Matching(path) = {handled[1].handler}
                 /\ routed = <<handled[1].return>>

\* C33 witness: the provider version listing was found after two other
\* routes had been tried, and the 500 and the error of its handler came back.
C33_Witness ==
    /\ rpc = "done"
    /\ path = "/v1/providers/hashicorp/aws/versions"
    /\ Cardinality(visited) = 3
    /\ Len(handled) = 1 /\ handled[1].handler = "listProviderVersions"
    /\ routed = Return(APIGatewayProxyResponse(500, <<>>), TRUE)

====
